---- MODULE Spec2Model ----
(***************************************************************************)
(* Model of kirito18/retriever-render.                                     *)
(*                                                                         *)
(*   retriever_server.py : crawl_and_build (frontier crawl + persistence), *)
(*                         load_docs, score_doc, search_docs and the       *)
(*                         /search and /rebuild endpoints, which FastAPI   *)
(*                         runs on a thread pool (plain "def" handlers).   *)
(*   crawler.py          : the stand-alone crawl script (set frontier).    *)
(*                                                                         *)
(* A URL string is a sequence of tokens, e.g.                              *)
(*   <<"https://", "by-cariola.com", "/products/", "scarf">>.              *)
(* String prefix / suffix / substring tests become the same tests on the   *)
(* token sequence.  A text (page body) is represented by the length of its *)
(* normalised form, a title by a string.                                   *)
(***************************************************************************)
EXTENDS Integers, Sequences, FiniteSets, TLC

\* ------------------------------------------------------------------------
\* Bounds of the model
\* ------------------------------------------------------------------------
\* number of concurrent /rebuild request threads
NumWorkers == 2
\* number of concurrent /search request threads
NumSearchers == 1
\* largest page budget (max_pages) tried
MaxPagesBound == 2
\* largest number of anchors on one fetched page
MaxLinks == 1
\* number of rebuild requests served in one behaviour
MaxBuilds == 2
\* number of search requests served in one behaviour
MaxSearches == 2

Workers == 1..NumWorkers
Searchers == 1..NumSearchers

\* ------------------------------------------------------------------------
\* Sequence helpers (str.startswith, str.endswith, "x in s")
\* ------------------------------------------------------------------------
IsPrefix(a, s) == Len(a) <= Len(s) /\ SubSeq(s, 1, Len(a)) = a

IsSuffix(a, s) == Len(a) <= Len(s) /\ SubSeq(s, Len(s) - Len(a) + 1, Len(s)) = a

IsInfix(a, s) ==
  \E i \in 0..(Len(s) - Len(a)) : SubSeq(s, i + 1, i + Len(a)) = a

Min(a, b) == IF a <= b THEN a ELSE b

\* ------------------------------------------------------------------------
\* URLs
\* ------------------------------------------------------------------------
SITE == "by-cariola.com"

U_all  == <<"https://", SITE, "/collections/", "all">>
U_prod == <<"https://", SITE, "/products/", "scarf">>
U_blog == <<"https://", SITE, "/blogs/", "history">>
U_img  == <<"https://", SITE, "/products/", "scarf", ".png">>
U_off  == <<"https://", "other.com", "/products/", "scarf">>
U_port == <<"https://", SITE, ":8080", "/products/", "scarf">>
U_var  == <<"https://", SITE, "/products/", "scarf", "?variant=", "1">>

URLS == {U_all, U_prod, U_blog, U_img, U_off, U_port, U_var}

\* tokens that begin the path or the query of a URL: urlparse ends the
\* netloc at the first "/", "?" or "#" after "//"
PathStart == {"/collections/", "/products/", "/blogs/", "/pages/",
              "/cart", "/account", "/search", "?variant=", "?"}
QueryStart == {"?variant=", "?"}

\* urlparse(u).netloc
Netloc(u) ==
  LET after == {i \in 2..Len(u) : u[i] \in PathStart}
      stop  == IF after = {} THEN Len(u) + 1
               ELSE CHOOSE i \in after : \A j \in after : i <= j
  IN SubSeq(u, 2, stop - 1)

\* ------------------------------------------------------------------------
\* Patterns (the regular expressions of the configuration).  A pattern is a
\* set of alternatives [kind, lit]; re.search(p, url) holds iff one
\* alternative matches:  "prefix" is ^lit.* , "search" is lit , "suffix"
\* is lit$ .
\* ------------------------------------------------------------------------
Alt(k, l) == [kind |-> k, lit |-> l]

re_search(p, u) ==
  \E a \in p :
    \/ a.kind = "prefix" /\ IsPrefix(a.lit, u)
    \/ a.kind = "search" /\ IsInfix(a.lit, u)
    \/ a.kind = "suffix" /\ IsSuffix(a.lit, u)

DEFAULT_INCLUDE ==
  { Alt("prefix", <<"https://", SITE, "/products/">>),
    Alt("prefix", <<"https://", SITE, "/collections/">>),
    Alt("prefix", <<"https://", SITE, "/pages/">>) }

DEFAULT_EXCLUDE ==
  { Alt("search", <<"/blogs/">>), Alt("search", <<"/cart">>),
    Alt("search", <<"/account">>), Alt("search", <<"/search">>),
    Alt("search", <<"?variant=">>), Alt("suffix", <<".json">>) }

\* an INCLUDE_PATTERNS setting from the environment, "||"-separated
LOOSE_INCLUDE == << {Alt("search", <<"/products/">>)},
                    {Alt("search", <<"/collections/">>)} >>

AssetExt == {".png", ".jpg", ".jpeg", ".gif", ".svg", ".webp", ".pdf",
             ".mp4", ".css", ".js", ".woff", ".woff2"}

\* ------------------------------------------------------------------------
\* URL classifier of retriever_server.py
\* ------------------------------------------------------------------------
same_domain(u, allowed) ==
  \E i \in DOMAIN allowed : IsSuffix(allowed[i], Netloc(u))

is_asset(u) ==
  \E i \in DOMAIN u :
    u[i] \in AssetExt /\ (i = Len(u) \/ u[i + 1] \in QueryStart)

MatchesExclude(u, c) == \E i \in DOMAIN c.exclude : re_search(c.exclude[i], u)

MatchesInclude(u, c) == \E i \in DOMAIN c.include : re_search(c.include[i], u)

is_included(u, c) ==
  IF MatchesExclude(u, c) THEN FALSE ELSE MatchesInclude(u, c)

\* the three guards of the crawl loop, in the order the code applies them
Classify(u, c) ==
  IF ~same_domain(u, c.allowed) THEN FALSE
  ELSE IF is_asset(u) THEN FALSE
  ELSE is_included(u, c)

\* ------------------------------------------------------------------------
\* Pages, texts, documents
\* ------------------------------------------------------------------------
\* length a body must reach to be stored (len(body) < 120 is discarded)
MIN_BODY == 120
\* display cap of search_docs: h["body"][:900]
DISPLAY_CAP == 900

\* lengths of norm_text(text) for the texts the site serves; 0 is "" / None
CleanLens == {0, 119, 120}
RawLens   == {0, 4001}

LinkSets == {L \in SUBSET URLS : Cardinality(L) <= MaxLinks}

\* what a successful GET returns: the anchors of the markup, the length of
\* the visible text of the markup (soup.get_text), and its <title> if any
Pages == [links : LinkSets, raw : RawLens, titled : BOOLEAN]

PAGE_TITLE == <<"Red Silk Scarf">>

\* title = soup.title.get_text() if soup.title else url ; norm_text(title)
TitleOf(page, u) == IF page.titled THEN PAGE_TITLE ELSE u

\* text = fetch_clean_text(url); if not text: text = soup.get_text()
BodyOf(clean, page) == IF clean = 0 THEN page.raw ELSE clean

\* faulty variant of TooShort: only the empty body is refused
TooShort_emptyOnly(body) == body = 0

\* if not body or len(body) < 120: continue
TooShort(body) == body = 0 \/ body < MIN_BODY

\* faulty variant of DocId: the number of documents is not used
DocId_fixed(n) == <<"doc_", 0>>

\* f"doc_{len(docs)}"
DocId(n) == <<"doc_", n>>

MakeDoc(n, title, body, u) ==
  [doc_id |-> DocId(n), title |-> title, body |-> body, url |-> u]

\* all orders in which the for loop can walk a set
Orders(S) ==
  {o \in [1..Cardinality(S) -> S] : \A i, j \in DOMAIN o : i # j => o[i] # o[j]}

\* faulty variant of LinkAccepted: assets are not filtered out
LinkAccepted_assets(link, vis, c) ==
  /\ link \notin vis
  /\ same_domain(link, c.allowed)
  /\ is_included(link, c)

\* the link filter at the end of an iteration (lines 147-155)
LinkAccepted(link, vis, c) ==
  /\ link \notin vis
  /\ same_domain(link, c.allowed)
  /\ ~is_asset(link)
  /\ is_included(link, c)

\* for link in <order>: if accepted: encola.put(link)
EnqueueLinks(q, order, vis, c) ==
  q \o SelectSeq(order, LAMBDA l : LinkAccepted(l, vis, c))

\* faulty variant of LoopCond: the budget test is off by one
LoopCond_offByOne(q, vis, mp) == q # <<>> /\ Cardinality(vis) <= mp

\* while not encola.empty() and len(visited) < max_pages
LoopCond(q, vis, mp) == q # <<>> /\ Cardinality(vis) < mp

\* faulty variant of MarkVisited: the URL is not recorded
MarkVisited_skip(vis, u) == vis

\* visited.add(url)
MarkVisited(vis, u) == vis \cup {u}

\* ------------------------------------------------------------------------
\* Configuration (environment / CLI arguments), fixed for a behaviour
\* ------------------------------------------------------------------------
ALLOWED_DOMAINS == << <<SITE>> >>

SeedLists == { <<>>, <<U_all>>, <<U_all, U_prod>>, <<U_all, U_all>>,
               <<U_blog, U_prod>>, <<U_port, U_img>>, <<U_off, U_var>> }

Includes == { <<DEFAULT_INCLUDE>>, LOOSE_INCLUDE }

CrawlConfigs ==
  [seeds : SeedLists, allowed : {ALLOWED_DOMAINS}, include : Includes,
   exclude : {<<DEFAULT_EXCLUDE>>}, max_pages : (-1)..MaxPagesBound]

\* ------------------------------------------------------------------------
\* State
\* ------------------------------------------------------------------------
VARIABLES
  cfg,        \* SEED_URLS, ALLOWED_DOMAINS, patterns, MAX_PAGES
  env,        \* the environment: the pages and clean texts the site can
              \* serve, the similarity values and top_k of the requests
  pc,         \* position of each /rebuild thread
  visited,    \* crawl_and_build: visited
  encola,     \* crawl_and_build: encola (FIFO queue)
  docs,       \* crawl_and_build: docs
  url,        \* crawl_and_build: url
  html,       \* crawl_and_build: html (a page) 
  text,       \* crawl_and_build: text (length of its normalised form)
  widx,       \* number of documents written to / lines read from chunks
  fetched,    \* history: the network retrievals issued, in order
  verdict,    \* history: the last URL put through the gate and the outcome
  build,      \* history: number of the build a thread is running
  nbuilds,    \* history: builds started so far
  built,      \* history: the documents each build had when its loop ended
  aborted,    \* history: builds that ended in an exception
  chunksFile, \* build/chunks.jsonl
  indexFile,  \* build/kb.index
  modelFile,  \* build/model.json
  DOCS,       \* the global _DOCS: a reference to a list object
  heap,       \* the list objects ever bound to _DOCS, by reference
  loaded,     \* history: each list object's documents as load_docs put them
  spc,        \* position of each /search thread
  sref,       \* search_docs: the list object the comprehension iterates
  spos,       \* search_docs: position of that iteration
  scored,     \* search_docs: scored
  topk,       \* search_docs: top_k
  result,     \* search_docs: the hits returned (copies of what was sent)
  nsearch,    \* history: searches started so far
  kpc,        \* crawler.py: position of the script
  seen,       \* crawler.py: seen
  kqueue,     \* crawler.py: queue (a set)
  chunks,     \* crawler.py: chunks
  kurl,       \* crawler.py: url
  kfetched,   \* history: the retrievals the script issued
  kverdict    \* history: the last URL the script classified and the outcome

crawlVars == <<visited, encola, docs, url, html, text, widx>>
histVars  == <<fetched, verdict, build, nbuilds, built, aborted>>
fileVars  == <<chunksFile, indexFile, modelFile>>
memVars   == <<DOCS, heap, loaded>>
searchVars == <<spc, sref, spos, scored, topk, result, nsearch>>
scriptVars == <<kpc, seen, kqueue, chunks, kurl, kfetched, kverdict>>
offCrawl == <<fileVars, memVars, searchVars, scriptVars>>
vars == <<cfg, env, pc, crawlVars, histVars, fileVars, memVars, searchVars, scriptVars>>

InCrawl == {"loop", "classify", "fetch_html", "fetch_clean_text", "extract"}

NoPage == [links |-> {}, raw |-> 0, titled |-> FALSE]
NoVerdict == [url |-> <<>>, accept |-> FALSE]

\* ------------------------------------------------------------------------
\* crawl_and_build: the crawl loop (lines 99-155)
\* ------------------------------------------------------------------------
\* the request enters crawl_and_build: visited = set(); the seeds are queued
RebuildStart(r) ==
  /\ pc[r] = "idle"
  /\ nbuilds < MaxBuilds
  /\ pc' = [pc EXCEPT ![r] = "loop"]
  /\ visited' = [visited EXCEPT ![r] = {}]
  /\ encola' = [encola EXCEPT ![r] = cfg.seeds]
  /\ docs' = [docs EXCEPT ![r] = <<>>]
  /\ url' = [url EXCEPT ![r] = <<>>]
  /\ html' = [html EXCEPT ![r] = NoPage]
  /\ text' = [text EXCEPT ![r] = 0]
  /\ widx' = [widx EXCEPT ![r] = 0]
  /\ fetched' = [fetched EXCEPT ![r] = <<>>]
  /\ verdict' = [verdict EXCEPT ![r] = NoVerdict]
  /\ nbuilds' = nbuilds + 1
  /\ build' = [build EXCEPT ![r] = nbuilds + 1]
  /\ UNCHANGED <<cfg, env, offCrawl, built, aborted>>

\* url = encola.get(); if url in visited: continue; visited.add(url)
Dequeue(r) ==
  /\ pc[r] = "loop"
  /\ LoopCond(encola[r], visited[r], cfg.max_pages)
  /\ LET u == Head(encola[r]) IN
       /\ encola' = [encola EXCEPT ![r] = Tail(@)]
       /\ url' = [url EXCEPT ![r] = u]
       /\ IF u \in visited[r]
          THEN UNCHANGED <<visited, pc>>
          ELSE /\ visited' = [visited EXCEPT ![r] = MarkVisited(@, u)]
               /\ pc' = [pc EXCEPT ![r] = "classify"]
  /\ UNCHANGED <<cfg, env, offCrawl, docs, html, text, widx, histVars>>

\* the loop condition fails: the crawl is over, the files are written next
LoopExit(r) ==
  /\ pc[r] = "loop"
  /\ ~LoopCond(encola[r], visited[r], cfg.max_pages)
  /\ pc' = [pc EXCEPT ![r] = "write_chunks"]
  /\ built' = built \cup {docs[r]}
  /\ UNCHANGED <<cfg, env, offCrawl, crawlVars, fetched, verdict, build, nbuilds, aborted>>

\* same_domain / is_asset / is_included, each followed by "continue"
Gate(r) ==
  /\ pc[r] = "classify"
  /\ LET ok == Classify(url[r], cfg) IN
       /\ verdict' = [verdict EXCEPT ![r] = [url |-> url[r], accept |-> ok]]
       /\ pc' = [pc EXCEPT ![r] = IF ok THEN "fetch_html" ELSE "loop"]
  /\ UNCHANGED <<cfg, env, offCrawl, crawlVars, fetched, build, nbuilds, built, aborted>>

\* html = fetch_html(url): one GET; None on an error or a status >= 400
FetchHtml(r) ==
  /\ pc[r] = "fetch_html"
  /\ fetched' = [fetched EXCEPT ![r] = Append(@, url[r])]
  /\ \/ /\ pc' = [pc EXCEPT ![r] = "loop"]
        /\ html' = [html EXCEPT ![r] = NoPage]
     \/ \E page \in env.pages :
          /\ html' = [html EXCEPT ![r] = page]
          /\ pc' = [pc EXCEPT ![r] = "fetch_clean_text"]
  /\ UNCHANGED <<cfg, env, offCrawl, visited, encola, docs, url, text, widx,
                 verdict, build, nbuilds, built, aborted>>

\* text = fetch_clean_text(url): trafilatura.fetch_url downloads the URL
\* again; "" on failure
FetchCleanText(r) ==
  /\ pc[r] = "fetch_clean_text"
  /\ fetched' = [fetched EXCEPT ![r] = Append(@, url[r])]
  /\ \E t \in env.cleans : text' = [text EXCEPT ![r] = t]
  /\ pc' = [pc EXCEPT ![r] = "extract"]
  /\ UNCHANGED <<cfg, env, offCrawl, visited, encola, docs, url, html, widx,
                 verdict, build, nbuilds, built, aborted>>

\* fallback text, title, normalisation, length test, docs.append, link loop
\* (html and text are not read again before the next iteration assigns
\* them: they are cleared here to keep the state small)
BuildDoc(r) ==
  /\ pc[r] = "extract"
  /\ LET body  == BodyOf(text[r], html[r])
         title == TitleOf(html[r], url[r])
     IN IF TooShort(body)
        THEN UNCHANGED <<docs, encola>>
        ELSE /\ docs' = [docs EXCEPT ![r] =
                           Append(@, MakeDoc(Len(@), title, body, url[r]))]
             /\ \E order \in Orders(html[r].links) :
                  encola' = [encola EXCEPT ![r] =
                               EnqueueLinks(@, order, visited[r], cfg)]
  /\ html' = [html EXCEPT ![r] = NoPage]
  /\ text' = [text EXCEPT ![r] = 0]
  /\ pc' = [pc EXCEPT ![r] = "loop"]
  /\ UNCHANGED <<cfg, env, offCrawl, visited, url, widx, histVars>>

\* ------------------------------------------------------------------------
\* crawl_and_build: persistence (lines 157-175)
\* ------------------------------------------------------------------------
\* a line json.loads cannot parse: the hole a write past the end leaves
\* in a file another writer truncated
JUNK == [doc_id |-> <<>>, title |-> <<>>, body |-> 0, url |-> <<>>]

Pad(lines, n) == lines \o [i \in 1..(n - Len(lines)) |-> JUNK]

\* a write of line k at the writer's own offset
WriteAt(lines, k, d) ==
  IF k <= Len(lines) THEN [lines EXCEPT ![k] = d]
  ELSE Append(Pad(lines, k - 1), d)

\* with CHUNKS_FILE.open("w"): the file is created or truncated
OpenChunks(r) ==
  /\ pc[r] = "write_chunks"
  /\ chunksFile' = [exists |-> TRUE, by |-> build[r], lines |-> <<>>, size |-> 0]
  /\ widx' = [widx EXCEPT ![r] = 0]
  /\ pc' = [pc EXCEPT ![r] = "write_lines"]
  /\ UNCHANGED <<cfg, env, visited, encola, docs, url, html, text, histVars,
                 indexFile, modelFile, memVars, searchVars, scriptVars>>

\* for d in docs: f.write(json.dumps(d) + "\n")
WriteLine(r) ==
  /\ pc[r] = "write_lines"
  /\ widx[r] < Len(docs[r])
  /\ chunksFile' = [chunksFile EXCEPT
                      !.exists = TRUE, !.by = build[r],
                      !.lines = WriteAt(@, widx[r] + 1, docs[r][widx[r] + 1])]
  /\ widx' = [widx EXCEPT ![r] = @ + 1]
  /\ UNCHANGED <<cfg, env, pc, visited, encola, docs, url, html, text, histVars,
                 indexFile, modelFile, memVars, searchVars, scriptVars>>

\* the chunks file is closed; INDEX_FILE is written ({"size": len(docs)};
\* the vocabulary count is not represented, texts being lengths)
WriteIndex(r) ==
  /\ pc[r] = "write_lines"
  /\ widx[r] = Len(docs[r])
  /\ indexFile' = [exists |-> TRUE, by |-> build[r], lines |-> <<>>,
                   size |-> Len(docs[r])]
  /\ pc' = [pc EXCEPT ![r] = "write_model"]
  /\ UNCHANGED <<cfg, env, crawlVars, histVars, chunksFile, modelFile,
                 memVars, searchVars, scriptVars>>

\* MODEL_FILE is written ({"built_at": now}); crawl_and_build returns
WriteModel(r) ==
  /\ pc[r] = "write_model"
  /\ modelFile' = [exists |-> TRUE, by |-> build[r], lines |-> <<>>, size |-> 0]
  /\ pc' = [pc EXCEPT ![r] = "load_reset"]
  /\ UNCHANGED <<cfg, env, crawlVars, histVars, chunksFile, indexFile,
                 memVars, searchVars, scriptVars>>

\* an exception leaves crawl_and_build (parser or I/O error, shutdown):
\* nothing in it catches one, the request ends without load_docs
Abort(r) ==
  /\ pc[r] \in InCrawl \cup {"write_chunks", "write_lines", "write_model"}
  /\ pc' = [pc EXCEPT ![r] = "idle"]
  /\ aborted' = aborted \cup {build[r]}
  /\ UNCHANGED <<cfg, env, crawlVars, fetched, verdict, build, nbuilds, built,
                 offCrawl>>

\* ------------------------------------------------------------------------
\* load_docs (lines 182-192)
\* ------------------------------------------------------------------------
\* _DOCS = []  (a new list object); return if the chunks file is missing
LoadReset(r) ==
  /\ pc[r] = "load_reset"
  /\ heap' = Append(heap, <<>>)
  /\ loaded' = Append(loaded, <<>>)
  /\ DOCS' = Len(heap) + 1
  /\ widx' = [widx EXCEPT ![r] = 0]
  /\ pc' = [pc EXCEPT ![r] = IF chunksFile.exists THEN "load_lines" ELSE "idle"]
  /\ UNCHANGED <<cfg, env, visited, encola, docs, url, html, text, histVars,
                 fileVars, searchVars, scriptVars>>

\* for line in f: _DOCS.append(json.loads(line)), a bad line is skipped;
\* _DOCS is looked up at each append
LoadLine(r) ==
  /\ pc[r] = "load_lines"
  /\ widx[r] < Len(chunksFile.lines)
  /\ LET d == chunksFile.lines[widx[r] + 1] IN
       IF d = JUNK THEN UNCHANGED <<heap, loaded>>
       ELSE /\ heap' = [heap EXCEPT ![DOCS] = Append(@, d)]
            /\ loaded' = [loaded EXCEPT ![DOCS] = Append(@, d)]
  /\ widx' = [widx EXCEPT ![r] = @ + 1]
  /\ UNCHANGED <<cfg, env, pc, visited, encola, docs, url, html, text, histVars,
                 fileVars, DOCS, searchVars, scriptVars>>

\* end of file: load_docs returns and /rebuild answers
LoadDone(r) ==
  /\ pc[r] = "load_lines"
  /\ widx[r] >= Len(chunksFile.lines)
  /\ pc' = [pc EXCEPT ![r] = "idle"]
  /\ UNCHANGED <<cfg, env, crawlVars, histVars, offCrawl>>

\* ------------------------------------------------------------------------
\* score_doc / search_docs (lines 194-220).  Scores are kept in tenths:
\* 1.5 * s1 + 0.7 * s2 + boost  is  15 * s1 + 7 * s2 + 10 * boost.
\* ------------------------------------------------------------------------
\* values fuzz.partial_ratio returns (a library call, 0..100)
SimVals == {0, 100}

\* top_k values of the requests (6 is the default)
TopKs == {-1, 0, 1, 6}

Contains(u, tok) == IsInfix(<<tok>>, u)

\* faulty variant of Boost: a blog path is not penalised
Boost_noPenalty(u) ==
    (IF Contains(u, "/products/") THEN 60 ELSE 0)
  + (IF Contains(u, "/collections/") THEN 30 ELSE 0)

\* the three path tests of score_doc: +6.0, +3.0, -4.0
Boost(u) ==
    (IF Contains(u, "/products/") THEN 60 ELSE 0)
  + (IF Contains(u, "/collections/") THEN 30 ELSE 0)
  - (IF Contains(u, "/blogs/") THEN 40 ELSE 0)

score_doc(s1, s2, d) == 15 * s1 + 7 * s2 + Boost(d.url)

\* faulty variant of InsertDesc: an element goes before those of equal score
InsertDesc_unstable(sorted, e) ==
  LET k == Cardinality({i \in DOMAIN sorted : sorted[i].score > e.score})
  IN SubSeq(sorted, 1, k) \o <<e>> \o SubSeq(sorted, k + 1, Len(sorted))

\* list.sort(key = score, reverse = True): stable, descending
InsertDesc(sorted, e) ==
  LET k == Cardinality({i \in DOMAIN sorted : sorted[i].score >= e.score})
  IN SubSeq(sorted, 1, k) \o <<e>> \o SubSeq(sorted, k + 1, Len(sorted))

RECURSIVE SortDesc(_)
SortDesc(s) ==
  IF s = <<>> THEN <<>>
  ELSE InsertDesc(SortDesc(SubSeq(s, 1, Len(s) - 1)), s[Len(s)])

\* s[:k]
Slice(s, k) ==
  IF k >= Len(s) THEN s
  ELSE IF k >= 0 THEN SubSeq(s, 1, k)
  ELSE IF Len(s) + k > 0 THEN SubSeq(s, 1, Len(s) + k)
  ELSE <<>>

\* h["body"] = h["body"][:900] on the documents of lst that are hits
Truncate(lst, hits) ==
  [i \in DOMAIN lst |->
     IF \E j \in DOMAIN hits : hits[j].d = i
     THEN [lst[i] EXCEPT !.body = Min(@, DISPLAY_CAP)]
     ELSE lst[i]]

\* /search: search_docs starts to iterate the list _DOCS is bound to
SearchStart(s) ==
  /\ spc[s] = "idle"
  /\ nsearch < MaxSearches
  /\ nsearch' = nsearch + 1
  /\ \E k \in env.topks : topk' = [topk EXCEPT ![s] = k]
  /\ sref' = [sref EXCEPT ![s] = DOCS]
  /\ spos' = [spos EXCEPT ![s] = 0]
  /\ scored' = [scored EXCEPT ![s] = <<>>]
  /\ result' = [result EXCEPT ![s] = <<>>]
  /\ spc' = [spc EXCEPT ![s] = "scan"]
  /\ UNCHANGED <<cfg, env, pc, crawlVars, histVars, fileVars, memVars, scriptVars>>

\* one element of the comprehension: (score_doc(q, d), d); the entry also
\* keeps s1 and s2, the two similarities score_doc computed
ScanDoc(s) ==
  /\ spc[s] = "scan"
  /\ spos[s] < Len(heap[sref[s]])
  /\ \E s1, s2 \in env.sims :
       scored' = [scored EXCEPT ![s] =
                    Append(@, [score |-> score_doc(s1, s2, heap[sref[s]][spos[s] + 1]),
                               d |-> spos[s] + 1, s1 |-> s1, s2 |-> s2])]
  /\ spos' = [spos EXCEPT ![s] = @ + 1]
  /\ UNCHANGED <<cfg, env, pc, crawlVars, histVars, fileVars, memVars, scriptVars,
                 spc, sref, topk, result, nsearch>>

\* the iteration reaches the end of the list
ScanEnd(s) ==
  /\ spc[s] = "scan"
  /\ spos[s] >= Len(heap[sref[s]])
  /\ spc' = [spc EXCEPT ![s] = "rank"]
  /\ UNCHANGED <<cfg, env, pc, crawlVars, histVars, fileVars, memVars, scriptVars,
                 sref, spos, scored, topk, result, nsearch>>

\* sort, slice, cap the body of every hit, return the hits
Rank(s) ==
  /\ spc[s] = "rank"
  /\ LET hits == Slice(SortDesc(scored[s]), topk[s])
         lst  == Truncate(heap[sref[s]], hits)
     IN /\ heap' = [heap EXCEPT ![sref[s]] = lst]
        /\ result' = [result EXCEPT ![s] = [j \in DOMAIN hits |-> lst[hits[j].d]]]
  /\ spc' = [spc EXCEPT ![s] = "idle"]
  /\ UNCHANGED <<cfg, env, pc, crawlVars, histVars, fileVars, DOCS, loaded, scriptVars,
                 sref, spos, scored, topk, nsearch>>

\* ------------------------------------------------------------------------
\* crawler.py: the stand-alone crawl script
\* ------------------------------------------------------------------------
BASE == <<"https://", SITE>>

ALLOWED == << {Alt("prefix", <<"https://", SITE, "/products/">>)},
              {Alt("prefix", <<"https://", SITE, "/collections/">>)},
              {Alt("prefix", <<"https://", SITE, "/pages/">>)} >>

EXCLUDE == << {Alt("search", <<"/blogs/">>)}, {Alt("search", <<"?variant=">>)},
              {Alt("search", <<"/cart">>)}, {Alt("search", <<"/account">>)},
              {Alt("search", <<"/search">>)} >>

\* the configuration the script's constants amount to
ScriptConfig ==
  [seeds |-> <<>>, allowed |-> << <<SITE>> >>, include |-> ALLOWED,
   exclude |-> EXCLUDE, max_pages |-> 0]

ScriptSeeds == { BASE \o <<"/collections/", "all">>,
                 BASE \o <<"/collections">>,
                 BASE \o <<"/products">> }

\* body[:4000]
CHUNK_CAP == 4000

\* lengths of the whitespace-collapsed text extract() returns; 0 is ""
ScriptLens == {0, 50, 4001}

allowed(u) ==
  IF \E i \in DOMAIN EXCLUDE : re_search(EXCLUDE[i], u) THEN FALSE
  ELSE \E i \in DOMAIN ALLOWED : re_search(ALLOWED[i], u)

\* the script's extract_links keeps the hrefs that start with BASE
script_links(links) == {u \in links : IsPrefix(BASE, u)}

\* title or url.replace(BASE, '').strip('/'): the text holds no <title>
ScriptTitle(u) == SubSeq(u, Len(BASE) + 1, Len(u))

\* add_chunk(url, title, body)
add_chunk(ch, u, body) ==
  IF body = 0 THEN ch
  ELSE Append(ch, [doc_id |-> u, title |-> ScriptTitle(u),
                   body |-> Min(body, CHUNK_CAP), url |-> u])

\* url = queue.pop(); if url in seen or not allowed(url): continue;
\* seen.add(url)
KPop ==
  /\ kpc = "crawl"
  /\ \E u \in kqueue :
       /\ kqueue' = kqueue \ {u}
       /\ kurl' = u
       /\ IF u \in seen
          THEN UNCHANGED <<seen, kpc, kverdict>>
          ELSE /\ kverdict' = [url |-> u, accept |-> allowed(u)]
               /\ IF allowed(u)
                  THEN seen' = seen \cup {u} /\ kpc' = "fetch"
                  ELSE UNCHANGED <<seen, kpc>>
  /\ UNCHANGED <<cfg, env, pc, crawlVars, histVars, fileVars, memVars, searchVars,
                 chunks, kfetched>>

\* fetch_and_clean(url), add_chunk, the links are added to the queue
KFetch ==
  /\ kpc = "fetch"
  /\ kfetched' = Append(kfetched, kurl)
  /\ \/ UNCHANGED <<chunks, kqueue>>
     \/ \E page \in env.pages, t \in ScriptLens :
          IF t = 0 THEN UNCHANGED <<chunks, kqueue>>
          ELSE /\ chunks' = add_chunk(chunks, kurl, t)
               /\ kqueue' = kqueue \cup
                    {u \in script_links(page.links) : u \notin seen /\ allowed(u)}
  /\ kpc' = "crawl"
  /\ UNCHANGED <<cfg, env, pc, crawlVars, histVars, fileVars, memVars, searchVars,
                 seen, kurl, kverdict>>

\* while queue: ends; chunks.jsonl is written
KSaveChunks ==
  /\ kpc = "crawl"
  /\ kqueue = {}
  /\ chunksFile' = [exists |-> TRUE, by |-> -1, lines |-> chunks, size |-> 0]
  /\ kpc' = "save_index"
  /\ UNCHANGED <<cfg, env, pc, crawlVars, histVars, indexFile, modelFile, memVars,
                 searchVars, seen, kqueue, chunks, kurl, kfetched, kverdict>>

\* kb.index ({"count": len(chunks)}) and model.json are written
KSaveIndex ==
  /\ kpc = "save_index"
  /\ indexFile' = [exists |-> TRUE, by |-> -1, lines |-> <<>>,
                   size |-> Len(chunks)]
  /\ kpc' = "save_model"
  /\ UNCHANGED <<cfg, env, pc, crawlVars, histVars, chunksFile, modelFile, memVars,
                 searchVars, seen, kqueue, chunks, kurl, kfetched, kverdict>>

KSaveModel ==
  /\ kpc = "save_model"
  /\ modelFile' = [exists |-> TRUE, by |-> -1, lines |-> <<>>, size |-> 0]
  /\ kpc' = "done"
  /\ UNCHANGED <<cfg, env, pc, crawlVars, histVars, chunksFile, indexFile, memVars,
                 searchVars, seen, kqueue, chunks, kurl, kfetched, kverdict>>

\* ------------------------------------------------------------------------
\* Initial states and specifications
\* ------------------------------------------------------------------------
D0 == MakeDoc(0, PAGE_TITLE, 901, U_prod)

\* corpora a previous build may have left in build/
ServerCorpora == { <<>>, <<D0>> }

\* a server set-up: one seed, the default patterns
ServerConfigs ==
  [seeds : {<<U_all>>}, allowed : {ALLOWED_DOMAINS}, include : {<<DEFAULT_INCLUDE>>},
   exclude : {<<DEFAULT_EXCLUDE>>}, max_pages : {1}]

\* every page and text of the model / one product page
FullSite == [pages |-> Pages, cleans |-> CleanLens,
             sims |-> SimVals, topks |-> TopKs]
SmallSite == [pages |-> {[links |-> {U_prod}, raw |-> 901, titled |-> TRUE]},
              cleans |-> {0}, sims |-> {100}, topks |-> {6}]

\* the module is imported: load_docs() has read what build/ holds
InitWith(c, st, present, corpus, served) ==
  /\ cfg = c
  /\ env = st
  /\ pc = [r \in Workers |-> "idle"]
  /\ visited = [r \in Workers |-> {}]
  /\ encola = [r \in Workers |-> <<>>]
  /\ docs = [r \in Workers |-> <<>>]
  /\ url = [r \in Workers |-> <<>>]
  /\ html = [r \in Workers |-> NoPage]
  /\ text = [r \in Workers |-> 0]
  /\ widx = [r \in Workers |-> 0]
  /\ fetched = [r \in Workers |-> <<>>]
  /\ verdict = [r \in Workers |-> NoVerdict]
  /\ build = [r \in Workers |-> 0]
  /\ nbuilds = served
  /\ built = {corpus}
  /\ aborted = {}
  /\ chunksFile = [exists |-> present, by |-> 0, lines |-> corpus, size |-> 0]
  /\ indexFile = [exists |-> present, by |-> 0, lines |-> <<>>, size |-> Len(corpus)]
  /\ modelFile = [exists |-> present, by |-> 0, lines |-> <<>>, size |-> 0]
  /\ DOCS = 1
  /\ heap = << corpus >>
  /\ loaded = << corpus >>
  /\ spc = [s \in Searchers |-> "idle"]
  /\ sref = [s \in Searchers |-> 1]
  /\ spos = [s \in Searchers |-> 0]
  /\ scored = [s \in Searchers |-> <<>>]
  /\ topk = [s \in Searchers |-> 6]
  /\ result = [s \in Searchers |-> <<>>]
  /\ nsearch = 0
  /\ kpc = "crawl"
  /\ seen = {}
  /\ kqueue = ScriptSeeds
  /\ chunks = <<>>
  /\ kurl = <<>>
  /\ kfetched = <<>>
  /\ kverdict = NoVerdict

Rebuild(r) ==
  \/ RebuildStart(r) \/ Dequeue(r) \/ LoopExit(r) \/ Gate(r)
  \/ FetchHtml(r) \/ FetchCleanText(r) \/ BuildDoc(r)
  \/ OpenChunks(r) \/ WriteLine(r) \/ WriteIndex(r) \/ WriteModel(r)
  \/ LoadReset(r) \/ LoadLine(r) \/ LoadDone(r)

Search(s) == SearchStart(s) \/ ScanDoc(s) \/ ScanEnd(s) \/ Rank(s)

Script == KPop \/ KFetch \/ KSaveChunks \/ KSaveIndex \/ KSaveModel

\* the server: /rebuild and /search requests on the thread pool
Init ==
  \E c \in ServerConfigs, corpus \in ServerCorpora, present \in BOOLEAN :
    /\ (~present => corpus = <<>>)
    /\ InitWith(c, SmallSite, present, corpus, 0)

Next ==
  \/ \E r \in Workers : Rebuild(r) \/ Abort(r)
  \/ \E s \in Searchers : Search(s)

Spec == Init /\ [][Next]_vars

\* a single /rebuild request (the last the model serves), over every
\* configuration and every page the env can serve
InitCrawl == \E c \in CrawlConfigs : InitWith(c, FullSite, TRUE, <<D0>>, MaxBuilds - 1)

NextCrawl == Rebuild(1) \/ Abort(1)

SpecCrawl == InitCrawl /\ [][NextCrawl]_vars

\* the stand-alone script
InitScript == \E c \in ServerConfigs : InitWith(c, FullSite, TRUE, <<D0>>, MaxBuilds - 1)

SpecScript == InitScript /\ [][Script]_vars

\* the crawl loop of one request; every step of it returns (the GET has a
\* 15 s timeout, the rest is local computation)
CrawlStep(r) ==
  \/ Dequeue(r) \/ LoopExit(r) \/ Gate(r)
  \/ FetchHtml(r) \/ FetchCleanText(r) \/ BuildDoc(r)

SpecCrawlFair == InitCrawl /\ [][NextCrawl]_vars /\ WF_vars(CrawlStep(1))

\* /search requests against a loaded corpus, no rebuild in progress
D_prod == MakeDoc(0, PAGE_TITLE, 901, U_prod)
D_blog == MakeDoc(1, PAGE_TITLE, MIN_BODY, U_blog)
D_coll == MakeDoc(2, PAGE_TITLE, MIN_BODY, U_all)

SearchCorpora ==
  { <<>>,
    <<D_prod, D_blog>>,
    <<[D_blog EXCEPT !.doc_id = DocId(0)], [D_prod EXCEPT !.doc_id = DocId(1)]>>,
    <<D_prod, D_blog, D_coll>> }

\* the extremes of partial_ratio and two values that make equal scores
\* happen across the path boosts:
\* 1.5 * 2 + 0.7 * 10 = 10 = 6 - (-4), 1.5 * 2 = 3 = 6 - 3
SearchSims == {0, 2, 10, 100}

SearchSite == [pages |-> {}, cleans |-> {}, sims |-> SearchSims, topks |-> TopKs]

InitSearch ==
  \E c \in ServerConfigs, corpus \in SearchCorpora :
    InitWith(c, SearchSite, TRUE, corpus, MaxBuilds)

NextSearch == Search(1)

SpecSearch == InitSearch /\ [][NextSearch]_vars

\* two runs of crawl_and_build with the same arguments, each in a process
\* of its own (the build CLI run twice, the server before and after a
\* restart), against a site that does not change: every URL serves the
\* same markup, which links to two pages, and the same clean text
U_page == <<"https://", SITE, "/pages/", "about">>

StaticSite == [pages |-> {[links |-> {U_all, U_prod}, raw |-> 0, titled |-> TRUE]},
               cleans |-> {MIN_BODY}, sims |-> {}, topks |-> {}]

RunConfigs ==
  [seeds : {<<U_page>>}, allowed : {ALLOWED_DOMAINS},
   include : {<<DEFAULT_INCLUDE>>}, exclude : {<<DEFAULT_EXCLUDE>>},
   max_pages : {MaxPagesBound, MaxPagesBound + 1}]

InitRuns == \E c \in RunConfigs : InitWith(c, StaticSite, TRUE, <<>>, 0)

NextRuns == \E r \in Workers : RebuildStart(r) \/ CrawlStep(r)

SpecRuns == InitRuns /\ [][NextRuns]_vars

\* ------------------------------------------------------------------------
\* Properties
\* ------------------------------------------------------------------------
Count(seq, x) == Cardinality({i \in DOMAIN seq : seq[i] = x})

UrlsOf(ds) == [i \in DOMAIN ds |-> ds[i].url]

\* the host of a URL: its netloc without the port
PortTokens == {":8080"}

Host(u) == SelectSeq(Netloc(u), LAMBDA t : t \notin PortTokens)

\* rule 1 of the classifier as the specification words it: the host of the
\* URL is an allowed domain or ends with one
HostAllowed(u, c) == \E i \in DOMAIN c.allowed : IsSuffix(c.allowed[i], Host(u))

\* the classifier of the specification: the four rules
SpecAccept(u, c) ==
  /\ HostAllowed(u, c)
  /\ ~is_asset(u)
  /\ ~MatchesExclude(u, c)
  /\ MatchesInclude(u, c)

\* C1: within one run of crawl_and_build no URL is retrieved over the
\* network more than once (fetch_html and fetch_clean_text together), and
\* the retrievals number at most the accepted URLs encountered.
CEx_C1_FetchedAtMostOnce ==
  \A r \in Workers :
    /\ \A u \in URLS : Count(fetched[r], u) <= 1
    /\ Len(fetched[r]) <= Cardinality({u \in visited[r] : Classify(u, cfg)})

\* C2: with max_pages >= 0, in every state of crawl_and_build len(docs) <=
\* len(visited) <= max_pages, and the corpus a build persists has at most max_pages lines.
Thm_C2_BudgetBound ==
  cfg.max_pages >= 0 =>
    \A r \in Workers :
      /\ Len(docs[r]) <= Cardinality(visited[r])
      /\ Cardinality(visited[r]) <= cfg.max_pages
      /\ (chunksFile.by > 0 => Len(chunksFile.lines) <= cfg.max_pages)
      /\ (indexFile.by > 0 => indexFile.size <= cfg.max_pages)

\* C2 witness: the budget ended a crawl whose frontier was not empty, with
\* as many documents as the budget allows.
Wit_C2_BudgetReached ==
  \E r \in Workers :
    /\ pc[r] = "write_chunks"
    /\ encola[r] # <<>>
    /\ cfg.max_pages > 0
    /\ Len(docs[r]) = cfg.max_pages

\* an iteration of the loop either records a new URL in visited and goes on
\* to classify it, or drops a queue entry that is already visited
Variant(r) ==
  (pc[r] = "loop" /\ pc'[r] \in InCrawl /\ encola'[r] # encola[r]) =>
    \/ /\ pc'[r] = "classify"
       /\ visited[r] \subseteq visited'[r]
       /\ Cardinality(visited'[r]) = Cardinality(visited[r]) + 1
       /\ Cardinality(visited'[r]) <= cfg.max_pages
    \/ /\ pc'[r] = "loop"
       /\ visited'[r] = visited[r]
       /\ url'[r] \in visited[r]
       /\ Len(encola'[r]) < Len(encola[r])

\* C3: the crawl loop always terminates: no request stays in the loop for
\* ever (time and again no request is inside it),
\* and every iteration either discards an already visited queue entry or
\* strictly grows visited.
Thm_C3_CrawlTerminates ==
  /\ []<>(\A r \in Workers : pc[r] \notin InCrawl)
  /\ [][\A r \in Workers : Variant(r)]_vars

\* C3 witness: the loop is about to discard a queue entry that is already
\* visited (a duplicate seed, or a URL two pages link to).
Wit_C3_DuplicateAtHead ==
  \E r \in Workers :
    /\ pc[r] = "loop"
    /\ LoopCond(encola[r], visited[r], cfg.max_pages)
    /\ Head(encola[r]) \in visited[r]

\* C4: a URL is in visited before it is classified, fetched or extracted;
\* whenever a retrieval of u is issued u is in visited, and nothing is
\* removed from visited during the crawl.
Thm_C4_VisitedBeforeFetch ==
  [][\A r \in Workers :
       /\ (pc[r] \in {"classify", "fetch_html", "fetch_clean_text", "extract"}
             => url[r] \in visited[r])
       /\ (fetched'[r] # fetched[r] /\ pc[r] # "idle"
             => fetched'[r][Len(fetched'[r])] \in visited[r])
       /\ (pc[r] # "idle" => visited[r] \subseteq visited'[r])]_vars

\* C4 witness: a retrieval has been issued and the next is about to be.
Wit_C4_FetchIssued ==
  \E r \in Workers :
    /\ pc[r] = "fetch_clean_text"
    /\ Len(fetched[r]) >= 1
    /\ Cardinality(visited[r]) >= 2

\* C5: every URL that is fetched and the url of every stored document is
\* accepted by the classifier (allowed host, no asset, no exclude pattern,
\* some include pattern), in crawl_and_build and in the crawl script.
CEx_C5_ClassifierGate ==
  /\ \A r \in Workers :
       /\ \A i \in DOMAIN fetched[r] : SpecAccept(fetched[r][i], cfg)
       /\ \A i \in DOMAIN docs[r] : SpecAccept(docs[r][i].url, cfg)
  /\ \A i \in DOMAIN kfetched : SpecAccept(kfetched[i], ScriptConfig)
  /\ \A i \in DOMAIN chunks : SpecAccept(chunks[i].url, ScriptConfig)

\* C6: the verdict of the classifier is: accepted iff the host is allowed
\* and the URL is no asset, matches no exclude pattern and matches an
\* include pattern.
CEx_C6_VerdictIsSpecAccept ==
  /\ \A r \in Workers :
       verdict[r].url # <<>> =>
         (verdict[r].accept <=> SpecAccept(verdict[r].url, cfg))
  /\ kverdict.url # <<>> =>
       (kverdict.accept <=> SpecAccept(kverdict.url, ScriptConfig))

\* C7: search_docs leaves the documents of _DOCS as load_docs stored them.
CEx_C7_SearchKeepsCorpus == heap[DOCS] = loaded[DOCS]

\* the documents a search has scored, in the order it met them
Scanned(s) == [i \in DOMAIN scored[s] |-> heap[sref[s]][scored[s][i].d].url]

\* C8: every search scores a complete committed corpus, the previous one
\* or the newly built one, never an empty or partly loaded list.
CEx_C8_NoHalfBuiltCorpus ==
  \A s \in Searchers :
    spc[s] = "rank" => Scanned(s) \in {UrlsOf(c) : c \in built}

\* C9: at most one rebuild (crawl, file writes, load) is in progress.
CEx_C9_OneRebuildAtATime ==
  Cardinality({r \in Workers : pc[r] # "idle"}) <= 1

\* the three files are those of one completed build
PersistedCommitted ==
  \/ ~chunksFile.exists /\ ~indexFile.exists /\ ~modelFile.exists
  \/ /\ chunksFile.exists /\ indexFile.exists /\ modelFile.exists
     /\ chunksFile.lines \in built
     /\ indexFile.size = Len(chunksFile.lines)
     /\ indexFile.by = chunksFile.by
     /\ modelFile.by = chunksFile.by

\* C10: once every rebuild has returned or has been aborted, the persisted
\* files are those of one completed build: an aborted rebuild leaves the
\* previously committed corpus in place.
CEx_C10_AllOrNothing ==
  (\A r \in Workers : pc[r] = "idle") => PersistedCommitted

\* C11: a rebuild whose seed list is empty fails at crawl start: it takes
\* no crawl step and leaves the committed corpus as it was, the three
\* persisted files and the in-memory document list alike.
CEx_C11_EmptySeedsFailFast ==
  \A r \in Workers :
    (cfg.seeds = <<>> /\ build[r] > 0) =>
      /\ pc[r] \notin {"write_chunks", "write_lines", "write_model",
                       "load_reset", "load_lines"}
      /\ chunksFile.by = 0 /\ indexFile.by = 0 /\ modelFile.by = 0
      /\ chunksFile.lines = loaded[1]
      /\ DOCS = 1
      /\ heap[DOCS] = loaded[1]

\* C12: for every integer top_k the sequence search_docs returns has at
\* most top_k elements and at most as many as the corpus has documents;
\* a search of an empty corpus returns the empty sequence.
CEx_C12_ResultLength ==
  \A s \in Searchers :
    spc[s] = "idle" =>
      /\ Len(result[s]) <= topk[s]
      /\ Len(result[s]) <= Len(heap[sref[s]])
      /\ (heap[sref[s]] = <<>> => result[s] = <<>>)

\* position in the corpus of the j-th hit searcher s returned
HitPos(s, j) ==
  CHOOSE i \in DOMAIN heap[sref[s]] :
    heap[sref[s]][i].doc_id = result[s][j].doc_id

\* C13: the hits search_docs returns are the first top_k documents of the
\* corpus ordered by score descending, ties in corpus order: a hit before
\* another has a score at least as large and, at equal scores, comes first
\* in the corpus; no document left out has a larger score than a hit, nor
\* an equal score and an earlier place in the corpus.
Thm_C13_RankedPrefix ==
  \A s \in Searchers :
    (spc[s] = "idle" /\ scored[s] # <<>>) =>
      LET n == Len(scored[s])
          sc(i) == scored[s][i].score
          hit == {HitPos(s, j) : j \in DOMAIN result[s]}
      IN /\ n = Len(heap[sref[s]])
         /\ \A i \in 1..n : scored[s][i].d = i
         /\ \A j \in DOMAIN result[s] :
              \E i \in 1..n : heap[sref[s]][i].doc_id = result[s][j].doc_id
         /\ Cardinality(hit) = Len(result[s])
         /\ (topk[s] >= 0 => Len(result[s]) = Min(topk[s], n))
         /\ \A j, k \in DOMAIN result[s] :
              j < k =>
                /\ sc(HitPos(s, j)) >= sc(HitPos(s, k))
                /\ (sc(HitPos(s, j)) = sc(HitPos(s, k)) => HitPos(s, j) < HitPos(s, k))
         /\ \A i \in (1..n) \ hit : \A h \in hit :
              /\ sc(i) <= sc(h)
              /\ (sc(i) = sc(h) => h < i)

\* C13 witness: a search with top_k = 1 returned the first of two documents
\* of equal score and left the second out, while the corpus holds a third.
Wit_C13_TieKeptInCorpusOrder ==
  \E s \in Searchers :
    /\ spc[s] = "idle"
    /\ topk[s] = 1
    /\ Len(scored[s]) = 3
    /\ scored[s][2].score = scored[s][3].score
    /\ scored[s][1].score < scored[s][2].score
    /\ Len(result[s]) = 1
    /\ HitPos(s, 1) = 2

\* C14: every document a crawl stores has a body that is not empty and,
\* in crawl_and_build, at least 120 characters long (any non-empty body in
\* the crawl script); a page whose body is empty or shorter adds no
\* document and none of its links to the queue.
Thm_C14_MinBody ==
  [][/\ \A r \in Workers :
          /\ \A i \in DOMAIN docs'[r] :
               docs'[r][i].body > 0 /\ docs'[r][i].body >= MIN_BODY
          /\ (chunksFile'.by = build'[r] /\ build'[r] > 0 =>
                \A i \in DOMAIN chunksFile'.lines :
                  chunksFile'.lines[i].body >= MIN_BODY)
          /\ (pc[r] = "extract" /\ BodyOf(text[r], html[r]) < MIN_BODY =>
                docs'[r] = docs[r] /\ encola'[r] = encola[r])
     /\ \A i \in DOMAIN chunks' : chunks'[i].body > 0
     /\ (kpc = "fetch" /\ chunks' = chunks => kqueue' = kqueue)]_vars

\* C14 witness: the crawl stored a document whose body has exactly the
\* minimum length, then retrieved a second accepted page in full and
\* stored nothing for it.
Wit_C14_ShortPageDiscarded ==
  \E r \in Workers :
    /\ pc[r] = "loop"
    /\ Len(docs[r]) = 1
    /\ docs[r][1].body = MIN_BODY
    /\ Count(fetched[r], url[r]) = 2
    /\ fetched[r][Len(fetched[r])] = url[r]
    /\ url[r] # docs[r][1].url

\* C15: every document a crawl stores has a body no longer than the
\* storage cap, whatever the length of the page text (the cap is taken as
\* 4000, the largest the specification names and the one of the script).
CEx_C15_BodyCap ==
  /\ \A r \in Workers : \A i \in DOMAIN docs[r] : docs[r][i].body <= CHUNK_CAP
  /\ \A i \in DOMAIN chunks : chunks[i].body <= CHUNK_CAP

\* C16: in every state of a crawl the i-th document appended (counting
\* from 0) has doc_id "doc_i", so the doc_ids of one corpus are pairwise
\* distinct and increase in insertion order; while the crawl runs a stored
\* document is neither modified nor removed (docs only grows at its end).
Thm_C16_DocIds ==
  [][\A r \in Workers :
       /\ \A i \in DOMAIN docs'[r] : docs'[r][i].doc_id = <<"doc_", i - 1>>
       /\ \A i, j \in DOMAIN docs'[r] :
            i < j => /\ docs'[r][i].doc_id # docs'[r][j].doc_id
                     /\ docs'[r][i].doc_id[2] < docs'[r][j].doc_id[2]
       /\ (pc[r] # "idle" =>
             /\ Len(docs[r]) <= Len(docs'[r])
             /\ SubSeq(docs'[r], 1, Len(docs[r])) = docs[r])]_vars

\* C16 witness: a crawl has stored two documents and is still running.
Wit_C16_TwoDocsStored ==
  \E r \in Workers :
    /\ pc[r] \in InCrawl
    /\ Len(docs[r]) = 2
    /\ docs[r][1].url # docs[r][2].url

\* C17: a failed fetch (fetch_html returns None) is isolated: the step
\* leaves docs, the queue and visited as they were and the crawl goes back
\* to its loop; the URL is never retrieved again in the same crawl (a
\* fetch_html is only issued for a URL not retrieved before, a
\* fetch_clean_text only right after the successful fetch_html of the
\* same URL).
Thm_C17_FetchFailureIsolated ==
  [][\A r \in Workers :
       /\ (pc[r] = "fetch_html" /\ pc'[r] = "loop" =>
             /\ docs'[r] = docs[r]
             /\ encola'[r] = encola[r]
             /\ visited'[r] = visited[r]
             /\ url'[r] = url[r]
             /\ url[r] \in visited[r]
             /\ Count(fetched'[r], url[r]) = 1)
       /\ (pc[r] = "fetch_html" /\ fetched'[r] # fetched[r] =>
             Count(fetched[r], url[r]) = 0)
       /\ (pc[r] = "fetch_clean_text" /\ fetched'[r] # fetched[r] =>
             /\ fetched[r][Len(fetched[r])] = url[r]
             /\ Count(fetched[r], url[r]) = 1)]_vars

\* C17 witness: the fetch of a URL has failed, the same URL is again at the
\* head of the queue and the budget lets the loop go on.
Wit_C17_FailedUrlQueuedAgain ==
  \E r \in Workers :
    /\ pc[r] = "loop"
    /\ fetched[r] # <<>>
    /\ fetched[r][Len(fetched[r])] = url[r]
    /\ Count(fetched[r], url[r]) = 1
    /\ LoopCond(encola[r], visited[r], cfg.max_pages)
    /\ Head(encola[r]) = url[r]

\* the run of r has ended its crawl loop
CrawlEnded(r) == build[r] > 0 /\ pc[r] = "write_chunks"

\* no retrieval of the run failed: every fetch_html was followed by the
\* fetch_clean_text of the same URL
NoFetchFailed(r) ==
  /\ Len(fetched[r]) % 2 = 0
  /\ \A i \in DOMAIN fetched[r] :
       i % 2 = 1 => fetched[r][i + 1] = fetched[r][i]

\* C18: two runs of crawl_and_build with the same seeds, domains, patterns
\* and max_pages against the same unchanging pages end with the same
\* sequence of documents (urls, titles, bodies, doc_ids).
CEx_C18_Deterministic ==
  \A r1, r2 \in Workers :
    (CrawlEnded(r1) /\ CrawlEnded(r2) /\ NoFetchFailed(r1) /\ NoFetchFailed(r2))
      => docs[r1] = docs[r2]

ProductOnly(u) ==
  Contains(u, "/products/") /\ ~Contains(u, "/collections/") /\ ~Contains(u, "/blogs/")

BlogOnly(u) ==
  Contains(u, "/blogs/") /\ ~Contains(u, "/products/") /\ ~Contains(u, "/collections/")

\* 1.5 * title similarity + 0.7 * body similarity of a scored entry, in tenths
Weighted(e) == 15 * e.s1 + 7 * e.s2

\* the places in the result of searcher s of the i-th document of the corpus
PlacesOf(s, i) ==
  {j \in DOMAIN result[s] : result[s][j].doc_id = heap[sref[s]][i].doc_id}

\* C19: the score is 1.5 * title + 0.7 * body + boost, with boost +6 on a
\* product path, +3 on a collection path and -4 on a blog path (60, 30 and
\* -40 tenths); a document at a product-only URL is ranked strictly before
\* one at a blog-only URL whenever the weighted similarity of the blog
\* document exceeds that of the product document by less than 10 (100
\* tenths), in particular when the two are equal.
Thm_C19_ProductBeforeBlog ==
  \A s \in Searchers :
    (spc[s] = "idle" /\ scored[s] # <<>>) =>
      /\ \A i \in DOMAIN scored[s] :
           LET e == scored[s][i]
               u == heap[sref[s]][e.d].url
           IN /\ e.s1 \in 0..100 /\ e.s2 \in 0..100
              /\ (ProductOnly(u) => e.score = Weighted(e) + 60)
              /\ (BlogOnly(u) => e.score = Weighted(e) - 40)
              /\ (Contains(u, "/collections/") /\ ~Contains(u, "/products/")
                    /\ ~Contains(u, "/blogs/") => e.score = Weighted(e) + 30)
      /\ \A p, b \in DOMAIN scored[s] :
           (/\ ProductOnly(heap[sref[s]][p].url)
            /\ BlogOnly(heap[sref[s]][b].url)
            /\ Weighted(scored[s][b]) - Weighted(scored[s][p]) < 100) =>
              /\ scored[s][p].score > scored[s][b].score
              /\ \A j \in PlacesOf(s, b) : \E i \in PlacesOf(s, p) : i < j

\* C19 witness: the blog document comes first in the corpus and is more
\* similar to the query than the product document, by less than 10; the
\* search returned the product document first and the blog document second.
Wit_C19_BoostDecides ==
  \E s \in Searchers :
    /\ spc[s] = "idle"
    /\ Len(scored[s]) = 2
    /\ BlogOnly(heap[sref[s]][1].url)
    /\ ProductOnly(heap[sref[s]][2].url)
    /\ Weighted(scored[s][1]) > Weighted(scored[s][2])
    /\ Weighted(scored[s][1]) - Weighted(scored[s][2]) < 100
    /\ Len(result[s]) = 2
    /\ result[s][1].url = heap[sref[s]][2].url
    /\ result[s][2].url = heap[sref[s]][1].url

SeedUrls == {cfg.seeds[i] : i \in DOMAIN cfg.seeds}

\* the queue is what is left of the seeds followed by links the classifier
\* accepts, and holds a link only once a document has been stored
FrontierShape(r) ==
  \E k \in 0..Len(cfg.seeds) :
    LET rest == SubSeq(cfg.seeds, k + 1, Len(cfg.seeds)) IN
      /\ IsPrefix(rest, encola[r])
      /\ \A i \in (Len(rest) + 1)..Len(encola[r]) :
           /\ same_domain(encola[r][i], cfg.allowed)
           /\ ~is_asset(encola[r][i])
           /\ is_included(encola[r][i], cfg)
      /\ (Len(encola[r]) > Len(rest) => docs[r] # <<>>)

\* C20: every queue entry that is not a seed was accepted by the
\* classifier and was not visited when it was enqueued, and was found on
\* the page of the document stored in the same step; so the classifier
\* rejects only seeds at dequeue; an entry that is already visited is
\* dropped at dequeue without a fetch.
Thm_C20_Frontier ==
  [][\A r \in Workers :
       pc[r] \in InCrawl =>
         /\ FrontierShape(r)
         /\ (Len(encola'[r]) > Len(encola[r]) =>
               /\ pc[r] = "extract"
               /\ Len(docs'[r]) = Len(docs[r]) + 1
               /\ docs'[r][Len(docs'[r])].url = url[r]
               /\ SubSeq(encola'[r], 1, Len(encola[r])) = encola[r]
               /\ \A i \in (Len(encola[r]) + 1)..Len(encola'[r]) :
                    /\ encola'[r][i] \in html[r].links
                    /\ encola'[r][i] \notin visited[r]
                    /\ Classify(encola'[r][i], cfg))
         /\ (pc[r] = "classify" /\ pc'[r] = "loop" => url[r] \in SeedUrls)
         /\ (pc[r] = "loop" /\ pc'[r] = "loop" /\ encola'[r] # encola[r] =>
               /\ Head(encola[r]) \in visited[r]
               /\ encola'[r] = Tail(encola[r])
               /\ fetched'[r] = fetched[r]
               /\ docs'[r] = docs[r]
               /\ visited'[r] = visited[r])]_vars

\* C20 witness: a document has been stored, the link of its page was put
\* in the queue behind a seed with the same URL, and the loop is running.
Wit_C20_LinkQueuedTwice ==
  \E r \in Workers :
    /\ pc[r] = "loop"
    /\ docs[r] # <<>>
    /\ Len(encola[r]) = 2
    /\ encola[r][1] = encola[r][2]
    /\ encola[r][1] \notin visited[r]

====
